---- MODULE Spec2Model ----
(***************************************************************************)
(* Action orchestration of the OptiRead App component (App.tsx).           *)
(*                                                                         *)
(* The React state of the component, the cancellation ref, the pending     *)
(* asynchronous continuations (remote calls, live start/stop, the 100ms    *)
(* stop timers) and the collaborators' visible state are the variables.    *)
(* Every handler is an operator from the rendered state (the closure the   *)
(* handler was created in) to the state after the handler; Render applies  *)
(* the effects that React re-runs when their dependencies changed.         *)
(***************************************************************************)
EXTENDS Integers, Sequences, FiniteSets, TLC

VARIABLES
    isProcessing,       \* useState(false)
    currentAction,      \* useState<string | null>(null); "none" is null
    isLive,             \* useState(false)
    showRememberModal,  \* useState(false)
    frameToRemember,    \* useState<string | null>(null); 0 is null
    rememberedPeople,   \* useState<RememberedPerson[]>([])
    language,           \* useState(LANGUAGES[0]); index into LANGUAGES
    speechSpeed,        \* useState(1.0); index of the selected rate
    isListening,        \* useSpeechRecognition: isListening
    transcript,         \* useSpeechRecognition: transcript; "" is empty
    isCancelledRef,     \* useRef(false)
    calls,              \* processAndSpeak invocations not yet past finally
    liveOps,            \* handleLive invocations suspended at an await
    timers,             \* pending setTimeout callbacks of handleStop
    session,            \* liveService: "none" | "connecting" | "open"
    interval,           \* the frame feed's setInterval is installed
    recStopping,        \* recognition.stop() was requested and has not ended
    askCount,           \* askWithContext calls issued for the transcript
    clock,              \* elapsed time in units of TickUnit ms (timed runs)
    tickAt,             \* time of the next interval tick, -1 when none
    pushes,             \* sendVideoFrame calls made (timed runs)
    settingsChanges     \* language and speed selections made so far

vars == <<isProcessing, currentAction, isLive, showRememberModal,
          frameToRemember, rememberedPeople, language, speechSpeed,
          isListening, transcript, isCancelledRef, calls, liveOps, timers,
          session, interval, recStopping, askCount,
          clock, tickAt, pushes, settingsChanges>>

-----------------------------------------------------------------------------
(* Bounds of the model *)

NumLangs == 2
NumSpeeds == 2
MaxFrame == 1
MaxCalls == 2
MaxLiveOps == 1
MaxTimers == 1
MaxAsk == 4
MaxPeople == 1
MaxClock == 30
MaxSettingsChanges == 1

(* Program constants *)

StopGuardMs == 100
FeedPeriodMs == 500

\* one unit of the clock is the stop guard window; the feed period in units
TickUnit == StopGuardMs
TickEvery == FeedPeriodMs \div TickUnit

LANGUAGES ==
    << [code |-> "en-US", name |-> "English (US)", voice |-> "Zephyr"],
       [code |-> "en-GB", name |-> "English (UK)", voice |-> "Puck"],
       [code |-> "es-ES", name |-> "Spanish", voice |-> "Charon"],
       [code |-> "hi-IN", name |-> "Hindi", voice |-> "Kore"],
       [code |-> "kn-IN", name |-> "Kannada", voice |-> "Fenrir"],
       [code |-> "te-IN", name |-> "Telugu", voice |-> "Zephyr"] >>

Min(a, b) == IF a < b THEN a ELSE b
Langs == 1..Min(NumLangs, Len(LANGUAGES))
Speeds == 1..NumSpeeds
Frames == 0..MaxFrame
NoFrame == 0
Transcripts == {"what is this"}
ActionTypes == {"describe", "person", "ask"}
Range(s) == {s[i] : i \in 1..Len(s)}
RemoveAt(s, i) == SubSeq(s, 1, i - 1) \o SubSeq(s, i + 1, Len(s))

(* Names typed in the remember dialog, as sequences of characters *)
Names == { <<>>, <<" ">>, <<" ", "A", " ">> }

-----------------------------------------------------------------------------
(* The rendered state as one record: what the closures of a render see.    *)
(* Its video field is the frame the webcam can deliver during the step, 0  *)
(* when it has none (webcamRef.current is unset or not ready); its fx      *)
(* field collects the collaborator calls the step makes, in order.         *)

Cur ==
    [isProcessing |-> isProcessing, currentAction |-> currentAction,
     isLive |-> isLive, showRememberModal |-> showRememberModal,
     frameToRemember |-> frameToRemember,
     rememberedPeople |-> rememberedPeople, language |-> language,
     speechSpeed |-> speechSpeed, isListening |-> isListening,
     transcript |-> transcript, isCancelledRef |-> isCancelledRef,
     calls |-> calls, liveOps |-> liveOps, timers |-> timers,
     session |-> session, interval |-> interval, video |-> NoFrame,
     recStopping |-> recStopping, askCount |-> askCount, clock |-> clock, tickAt |-> tickAt,
     pushes |-> pushes, settingsChanges |-> settingsChanges, fx |-> <<>>]

Log(s, e) == [s EXCEPT !.fx = Append(@, e)]

speak(s, text, r) ==
    Log(s, <<"speak", text, LANGUAGES[r.language].voice, r.speechSpeed>>)

captureFrame(s) == s.video

-----------------------------------------------------------------------------
(* Collaborators that are not part of App.tsx *)

\* useSpeechRecognition: startListening() opens a recognition session
startListening(s) ==
    Log([s EXCEPT !.isListening = TRUE, !.transcript = "",
                  !.recStopping = FALSE, !.askCount = 0],
        <<"startListening">>)

\* useSpeechRecognition: stopListening() asks the recogniser to end; the
\* session ends, with its final transcript, in a later event
stopListening(s) ==
    Log([s EXCEPT !.recStopping = TRUE], <<"stopListening">>)

\* useSpeechRecognition: recognition ended and emitted its final transcript
recognitionEnded(s, t) ==
    [s EXCEPT !.isListening = FALSE, !.transcript = t,
              !.recStopping = FALSE, !.askCount = 0]

\* liveService.start({voiceName, onClose}): begins connecting
liveServiceStart(s) ==
    Log([s EXCEPT !.session = "connecting"], <<"liveService.start">>)

\* liveService.stop(): the session takes no more frames
liveServiceStop(s) ==
    Log([s EXCEPT !.session = "none"], <<"liveService.stop">>)

\* liveService: the connection of a pending start() is established
liveServiceOpened(s) ==
    [s EXCEPT !.session = IF @ = "connecting" THEN "open" ELSE @]

\* liveService: the session is gone (start failed, or the server closed it)
liveServiceClosed(s) == [s EXCEPT !.session = "none"]

-----------------------------------------------------------------------------
(* App.tsx *)

\* handleStop, with r the render whose closure runs and s the state so far
handleStop(r, s) ==
    LET s1 == Log([s EXCEPT !.isCancelledRef = TRUE], <<"stopSpeech">>)
        s2 == IF r.isListening THEN stopListening(s1) ELSE s1
        s3 == IF r.isLive
              THEN [liveServiceStop(s2) EXCEPT !.isLive = FALSE]
              ELSE s2
        s4 == IF r.showRememberModal
              THEN [s3 EXCEPT !.showRememberModal = FALSE]
              ELSE s3
    IN  [s4 EXCEPT !.isProcessing = FALSE,
                   !.currentAction = "none",
                   !.timers = @ + 1,
                   !.calls = [i \in 1..Len(@) |-> [@[i] EXCEPT !.stopped = TRUE]]]

\* the callback of handleStop's setTimeout
stopTimerFired(s) ==
    [s EXCEPT !.isCancelledRef = FALSE, !.timers = @ - 1]

\* processAndSpeak as it would be without line 81: the flag is left as is
processAndSpeak_keepsFlag(r, s, actionType) ==
    [s EXCEPT !.isProcessing = TRUE,
              !.currentAction = actionType,
              !.calls = Append(@, [type |-> actionType,
                                   cap |-> r.currentAction,
                                   language |-> r.language,
                                   speechSpeed |-> r.speechSpeed,
                                   stopped |-> FALSE,
                                   phase |-> "pending"])]

\* processAndSpeak up to its first await: the closure values it will use
\* after the await are those of the render r it was created in
processAndSpeak(r, s, actionType) ==
    [s EXCEPT !.isCancelledRef = FALSE,
              !.isProcessing = TRUE,
              !.currentAction = actionType,
              !.calls = Append(@, [type |-> actionType,
                                   cap |-> r.currentAction,
                                   language |-> r.language,
                                   speechSpeed |-> r.speechSpeed,
                                   stopped |-> FALSE,
                                   phase |-> "pending"])]

\* the finally block as it would be without the test of line 94
processAndSpeakFinally_always(s, c) ==
    [s EXCEPT !.isProcessing = FALSE, !.currentAction = "none"]

\* the finally block of processAndSpeak, for the invocation c
processAndSpeakFinally(s, c) ==
    IF c.cap = c.type
    THEN [s EXCEPT !.isProcessing = FALSE, !.currentAction = "none"]
    ELSE s

\* processAndSpeakSettled as it would be if it read the selected language
\* and speed when the call settles
processAndSpeakSettled_currentSettings(s, i, ok) ==
    LET c == s.calls[i]
        text == IF ok THEN "responseText"
                ELSE "Sorry, I encountered an error. Please try again."
    IN  IF s.isCancelledRef
        THEN processAndSpeakFinally([s EXCEPT !.calls = RemoveAt(@, i)], c)
        ELSE speak([s EXCEPT !.calls[i].phase = "speaking"], text, s)

\* processAndSpeak resumed after `await action`: ok is whether it resolved
processAndSpeakSettled(s, i, ok) ==
    LET c == s.calls[i]
        text == IF ok THEN "responseText"
                ELSE "Sorry, I encountered an error. Please try again."
    IN  IF s.isCancelledRef
        THEN processAndSpeakFinally([s EXCEPT !.calls = RemoveAt(@, i)], c)
        ELSE speak([s EXCEPT !.calls[i].phase = "speaking"], text, c)

\* processAndSpeak resumed after `await speak(...)`
processAndSpeakSpoken(s, i) ==
    processAndSpeakFinally([s EXCEPT !.calls = RemoveAt(@, i)], s.calls[i])

\* handleDescribe as it would be without the `if (frame)` test of line 108
handleDescribe_ignoresNoFrame(r) ==
    IF r.currentAction = "describe" THEN handleStop(r, r)
    ELSE IF r.isProcessing THEN r
    ELSE LET frame == captureFrame(r)
             s0 == Log(r, <<"captureFrame", frame>>)
         IN  processAndSpeak(r,
                 Log(speak(s0, "Analyzing the scene...", r),
                     <<"describeScene", frame, LANGUAGES[r.language].name>>),
                 "describe")

handleDescribe(r) ==
    IF r.currentAction = "describe" THEN handleStop(r, r)
    ELSE IF r.isProcessing THEN r
    ELSE LET frame == captureFrame(r)
             s0 == Log(r, <<"captureFrame", frame>>)
         IN  IF frame # NoFrame
             THEN processAndSpeak(r,
                      Log(speak(s0, "Analyzing the scene...", r),
                          <<"describeScene", frame, LANGUAGES[r.language].name>>),
                      "describe")
             ELSE s0

handlePerson(r) ==
    IF r.currentAction = "person" THEN handleStop(r, r)
    ELSE IF r.isProcessing THEN r
    ELSE LET frame == captureFrame(r)
             s0 == Log(r, <<"captureFrame", frame>>)
         IN  IF frame # NoFrame
             THEN processAndSpeak(r,
                      Log(speak(s0, "Looking for a person...", r),
                          <<"describePerson", frame, r.rememberedPeople,
                            LANGUAGES[r.language].name>>),
                      "person")
             ELSE s0

\* handleRemember as it would be without the isProcessing test of line 130
handleRemember_ignoresProcessing(r) ==
    LET frame == captureFrame(r)
        s0 == Log(r, <<"captureFrame", frame>>)
    IN  IF frame # NoFrame
        THEN [s0 EXCEPT !.frameToRemember = frame,
                        !.showRememberModal = TRUE]
        ELSE s0

handleRemember(r) ==
    IF r.isProcessing THEN r
    ELSE LET frame == captureFrame(r)
             s0 == Log(r, <<"captureFrame", frame>>)
         IN  IF frame # NoFrame
             THEN [s0 EXCEPT !.frameToRemember = frame,
                             !.showRememberModal = TRUE]
             ELSE s0

\* String.prototype.trim on a sequence of characters
RECURSIVE trimStart(_)
trimStart(n) ==
    IF n # <<>> /\ Head(n) = " " THEN trimStart(Tail(n)) ELSE n
RECURSIVE trimEnd(_)
trimEnd(n) ==
    IF n # <<>> /\ n[Len(n)] = " " THEN trimEnd(SubSeq(n, 1, Len(n) - 1)) ELSE n
trim(n) == trimEnd(trimStart(n))

\* handleSavePerson as it would be if it stored the name as typed
handleSavePerson_storesRawName(r, name) ==
    LET s0 == IF trim(name) # <<>> /\ r.frameToRemember # NoFrame
              THEN speak([r EXCEPT !.rememberedPeople =
                                Append(@, [name |-> name,
                                           imageBase64 |-> r.frameToRemember])],
                         <<"I'll remember", trim(name)>>, r)
              ELSE r
    IN  [s0 EXCEPT !.showRememberModal = FALSE, !.frameToRemember = NoFrame]

handleSavePerson(r, name) ==
    LET s0 == IF trim(name) # <<>> /\ r.frameToRemember # NoFrame
              THEN speak([r EXCEPT !.rememberedPeople =
                                Append(@, [name |-> trim(name),
                                           imageBase64 |-> r.frameToRemember])],
                         <<"I'll remember", trim(name)>>, r)
              ELSE r
    IN  [s0 EXCEPT !.showRememberModal = FALSE, !.frameToRemember = NoFrame]

\* onClose of RememberPersonModal
modalOnClose(r) == [r EXCEPT !.showRememberModal = FALSE]

handleAsk(r) ==
    IF r.currentAction = "ask" THEN handleStop(r, r)
    ELSE IF r.isListening THEN stopListening(r)
    ELSE IF ~r.isProcessing
         THEN startListening(speak(r, "Listening...", r))
         ELSE r

\* the effect that asks when a transcript is there (lines 160-167)
askEffect(r) ==
    IF ~r.isListening /\ r.transcript # ""
    THEN LET frame == captureFrame(r)
             s0 == Log(r, <<"captureFrame", frame>>)
             s1 == speak(s0, <<"Asking:", r.transcript>>, r)
             s2 == Log(s1, <<"askWithContext", frame, r.transcript,
                             LANGUAGES[r.language].name>>)
         IN  processAndSpeak(r, [s2 EXCEPT !.askCount = @ + 1], "ask")
    ELSE r

\* the dependency array of the ask effect: processAndSpeak is recreated
\* when language.voice, speechSpeed or currentAction change
askEffectDeps(r) ==
    <<r.isListening, r.transcript, LANGUAGES[r.language].name,
      LANGUAGES[r.language].voice, r.speechSpeed, r.currentAction>>

\* the frame feed effect (lines 197-208): cleanup, then setInterval if live
feedEffect(r) ==
    [r EXCEPT !.interval = r.isLive,
              !.tickAt = IF r.isLive THEN r.clock + TickEvery ELSE -1]

\* the interval callback of the frame feed
feedTick(r) ==
    LET frame == captureFrame(r)
        s0 == Log(r, <<"captureFrame", frame>>)
    IN  IF frame # NoFrame
        THEN Log(s0, <<"sendVideoFrame", frame>>)
        ELSE s0

handleLive(r) ==
    IF r.isLive
    THEN [liveServiceStop(r) EXCEPT !.liveOps = Append(@, [kind |-> "stop",
              language |-> r.language, speechSpeed |-> r.speechSpeed])]
    ELSE LET s0 == handleStop(r, r)
             s1 == [s0 EXCEPT !.currentAction = "live", !.isLive = TRUE]
         IN  [liveServiceStart(s1) EXCEPT !.liveOps = Append(@, [kind |-> "start",
                  language |-> r.language, speechSpeed |-> r.speechSpeed])]

\* handleLive resumed after `await liveService.stop()`
handleLiveStopped(s, i) ==
    [s EXCEPT !.liveOps = RemoveAt(@, i),
              !.isLive = FALSE, !.currentAction = "none"]

\* handleLive resumed after `await liveService.start(...)` resolved
handleLiveStarted(s, i) ==
    liveServiceOpened([s EXCEPT !.liveOps = RemoveAt(@, i)])

\* the catch block of handleLive
handleLiveFailed(s, i) ==
    speak([liveServiceClosed(s) EXCEPT !.liveOps = RemoveAt(@, i),
                                       !.isLive = FALSE,
                                       !.currentAction = "none"],
          "Could not start live mode.", s.liveOps[i])

\* the onClose callback given to liveService.start
onClose(s) ==
    [liveServiceClosed(s) EXCEPT !.isLive = FALSE, !.currentAction = "none"]

\* React commits the state s after the render r and re-runs the effects
\* whose dependencies changed; an effect that sets state renders again
RECURSIVE Render(_, _)
Render(r, s) ==
    LET s1 == IF askEffectDeps(r) # askEffectDeps(s) THEN askEffect(s) ELSE s
        s2 == IF r.isLive # s.isLive THEN feedEffect(s1) ELSE s1
    IN  IF askEffectDeps(s2) = askEffectDeps(s) THEN s2 ELSE Render(s, s2)

-----------------------------------------------------------------------------
(* The state machine *)

\* the render a step starts from, with the webcam able to deliver frame f
Begin(f) == [Cur EXCEPT !.video = f]

WithinBounds(s) ==
    /\ Len(s.calls) <= MaxCalls
    /\ Len(s.liveOps) <= MaxLiveOps
    /\ s.timers <= MaxTimers
    /\ s.askCount <= MaxAsk
    /\ Len(s.rememberedPeople) <= MaxPeople
    /\ s.settingsChanges <= MaxSettingsChanges

Commit(s) ==
    /\ isProcessing' = s.isProcessing
    /\ currentAction' = s.currentAction
    /\ isLive' = s.isLive
    /\ showRememberModal' = s.showRememberModal
    /\ frameToRemember' = s.frameToRemember
    /\ rememberedPeople' = s.rememberedPeople
    /\ language' = s.language
    /\ speechSpeed' = s.speechSpeed
    /\ isListening' = s.isListening
    /\ transcript' = s.transcript
    /\ isCancelledRef' = s.isCancelledRef
    /\ calls' = s.calls
    /\ liveOps' = s.liveOps
    /\ timers' = s.timers
    /\ session' = s.session
    /\ interval' = s.interval
    /\ recStopping' = s.recStopping
    /\ askCount' = s.askCount
    /\ clock' = s.clock
    /\ tickAt' = s.tickAt
    /\ pushes' = s.pushes
    /\ settingsChanges' = s.settingsChanges

\* the state React commits after the handler result s, from the current render
After(s) == Render(Cur, s)

Init ==
    /\ isProcessing = FALSE
    /\ currentAction = "none"
    /\ isLive = FALSE
    /\ showRememberModal = FALSE
    /\ frameToRemember = NoFrame
    /\ rememberedPeople = <<>>
    /\ language = 1
    /\ speechSpeed = 1
    /\ isListening = FALSE
    /\ transcript = ""
    /\ isCancelledRef = FALSE
    /\ calls = <<>>
    /\ liveOps = <<>>
    /\ timers = 0
    /\ session = "none"
    /\ interval = FALSE
    /\ recStopping = FALSE
    /\ askCount = 0
    /\ clock = 0
    /\ tickAt = -1
    /\ pushes = 0
    /\ settingsChanges = 0

\* the teardown of the live session was begun by the live intent and the
\* awaited liveService.stop() has not completed
StopPending == \E i \in 1..Len(liveOps) : liveOps[i].kind = "stop"

\* the collaborator calls of kind k made during the step that produced s
Made(s, k) == {i \in 1..Len(s.fx) : s.fx[i][1] = k}

\* every action renders and commits the result of one handler or callback,
\* provided the result stays within the bounds of the model

\* the frames to consider for a step that reads the webcam only through the
\* ask effect, which captures only when there is a transcript
AskFrames(tr) == IF tr # "" THEN Frames ELSE {NoFrame}

Describe ==
    \E f \in Frames :
        \E s \in {After(handleDescribe(Begin(f)))} :
            /\ WithinBounds(s)
            /\ Commit(s)

Person ==
    \E f \in Frames :
        \E s \in {After(handlePerson(Begin(f)))} :
            /\ WithinBounds(s)
            /\ Commit(s)

Ask ==
    \E f \in AskFrames(transcript) :
        \E s \in {After(handleAsk(Begin(f)))} :
            /\ WithinBounds(s)
            /\ Commit(s)

Live ==
    \E f \in AskFrames(transcript) :
        \E s \in {After(handleLive(Begin(f)))} :
            /\ WithinBounds(s)
            /\ Commit(s)

Remember ==
    \E f \in Frames :
        \E s \in {After(handleRemember(Begin(f)))} :
            /\ WithinBounds(s)
            /\ Commit(s)

SavePerson ==
    \E name \in Names :
        \E s \in {After(handleSavePerson(Begin(NoFrame), name))} :
            /\ showRememberModal
            /\ WithinBounds(s)
            /\ Commit(s)

CancelRemember ==
    \E s \in {After(modalOnClose(Begin(NoFrame)))} :
        /\ showRememberModal
        /\ WithinBounds(s)
        /\ Commit(s)

SetLanguage ==
    \E l \in Langs \ {language}, f \in AskFrames(transcript) :
        \E s \in {After([Begin(f) EXCEPT !.language = l,
                                        !.settingsChanges = @ + 1])} :
            /\ WithinBounds(s)
            /\ Commit(s)

SetSpeechSpeed ==
    \E v \in Speeds \ {speechSpeed}, f \in AskFrames(transcript) :
        \E s \in {After([Begin(f) EXCEPT !.speechSpeed = v,
                                        !.settingsChanges = @ + 1])} :
            /\ WithinBounds(s)
            /\ Commit(s)

RecognitionEnd ==
    \E t \in Transcripts \cup {""} : \E f \in AskFrames(t) :
        \E s \in {After(recognitionEnded(Begin(f), t))} :
            /\ isListening
            /\ WithinBounds(s)
            /\ Commit(s)

CallResolve ==
    \E i \in 1..Len(calls), f \in AskFrames(transcript) :
        \E s \in {After(processAndSpeakSettled(Begin(f), i, TRUE))} :
            /\ calls[i].phase = "pending"
            /\ WithinBounds(s)
            /\ Commit(s)

CallReject ==
    \E i \in 1..Len(calls), f \in AskFrames(transcript) :
        \E s \in {After(processAndSpeakSettled(Begin(f), i, FALSE))} :
            /\ calls[i].phase = "pending"
            /\ WithinBounds(s)
            /\ Commit(s)

SpeakDone ==
    \E i \in 1..Len(calls), f \in AskFrames(transcript) :
        \E s \in {After(processAndSpeakSpoken(Begin(f), i))} :
            /\ calls[i].phase = "speaking"
            /\ WithinBounds(s)
            /\ Commit(s)

StopTimer ==
    \E s \in {After(stopTimerFired(Begin(NoFrame)))} :
        /\ timers > 0
        /\ WithinBounds(s)
        /\ Commit(s)

LiveStopDone ==
    \E i \in 1..Len(liveOps), f \in AskFrames(transcript) :
        \E s \in {After(handleLiveStopped(Begin(f), i))} :
            /\ liveOps[i].kind = "stop"
            /\ WithinBounds(s)
            /\ Commit(s)

LiveStartDone ==
    \E i \in 1..Len(liveOps) :
        \E s \in {After(handleLiveStarted(Begin(NoFrame), i))} :
            /\ liveOps[i].kind = "start"
            /\ WithinBounds(s)
            /\ Commit(s)

LiveStartFail ==
    \E i \in 1..Len(liveOps), f \in AskFrames(transcript) :
        \E s \in {After(handleLiveFailed(Begin(f), i))} :
            /\ liveOps[i].kind = "start"
            /\ WithinBounds(s)
            /\ Commit(s)

LiveClosed ==
    \E f \in AskFrames(transcript) :
        \E s \in {After(onClose(Begin(f)))} :
            /\ session = "open"
            /\ WithinBounds(s)
            /\ Commit(s)

FeedTick ==
    \E f \in Frames :
        \E s \in {After(feedTick(Begin(f)))} :
            /\ interval
            /\ WithinBounds(s)
            /\ Commit(s)

Next ==
    \/ Describe \/ Person \/ Ask \/ Live
    \/ Remember \/ SavePerson \/ CancelRemember
    \/ SetLanguage \/ SetSpeechSpeed
    \/ RecognitionEnd \/ CallResolve \/ CallReject \/ SpeakDone
    \/ StopTimer
    \/ LiveStopDone \/ LiveStartDone \/ LiveStartFail \/ LiveClosed
    \/ FeedTick

Spec == Init /\ [][Next]_vars

-----------------------------------------------------------------------------
(* The frame feed in time: live mode is started at time 0 with the webcam   *)
(* delivering a frame on every tick, the interval callback runs when the   *)
(* clock reaches tickAt, and the live intent ends the session at 1700ms.   *)
(* How long liveService.start and liveService.stop take is not fixed.      *)

LiveEndAt == 1700 \div TickUnit

TimedLiveStart ==
    \E f \in Frames \ {NoFrame} :
        \E s \in {After(handleLive(Begin(f)))} :
            /\ clock = 0 /\ ~isLive /\ liveOps = <<>> /\ timers = 0
            /\ Commit(s)

TimedTick ==
    \E f \in Frames \ {NoFrame} :
        \E s \in {After(feedTick(Begin(f)))} :
            /\ interval /\ clock = tickAt
            /\ Commit([s EXCEPT !.tickAt = @ + TickEvery,
                                !.pushes = @ + Cardinality(Made(s, "sendVideoFrame"))])

TimedAdvance ==
    /\ interval /\ clock < tickAt /\ clock < MaxClock
    /\ clock # LiveEndAt \/ StopPending
    /\ Commit([Cur EXCEPT !.clock = @ + 1])

TimedLiveEnd ==
    \E f \in Frames \ {NoFrame} :
        \E s \in {After(handleLive(Begin(f)))} :
            /\ isLive /\ clock = LiveEndAt /\ ~StopPending
            /\ Commit(s)

NextTimed ==
    \/ TimedLiveStart \/ TimedTick \/ TimedAdvance \/ TimedLiveEnd
    \/ LiveStartDone \/ LiveStopDone \/ StopTimer

SpecTimed == Init /\ [][NextTimed]_vars

-----------------------------------------------------------------------------
(* Observations used by the properties *)

-----------------------------------------------------------------------------
(* C1: whenever live mode is on, no single-shot action is the current       *)
(* action and nothing is processing.                                       *)
C1_SingleActive ==
    isLive => (currentAction \notin ActionTypes /\ ~isProcessing)

(* C2: the completion (resolve or reject) of a remote call that was pending *)
(* when a stop was handled speaks nothing and leaves isProcessing and      *)
(* currentAction as they are.                                              *)
C2_StoppedCompletionSilent ==
    \A i \in 1..Len(calls), ok \in BOOLEAN, f \in Frames :
        (calls[i].phase = "pending" /\ calls[i].stopped) =>
            LET s == After(processAndSpeakSettled(Begin(f), i, ok))
            IN  /\ Made(s, "speak") = {}
                /\ s.isProcessing = isProcessing
                /\ s.currentAction = currentAction

(* C3: when the utterance of a call that no stop touched has finished, the  *)
(* orchestrator is Idle: isProcessing is false and currentAction is null.  *)
C3_IdleAfterUtterance ==
    \A i \in 1..Len(calls), f \in Frames :
        (calls[i].phase = "speaking" /\ ~calls[i].stopped) =>
            LET s == After(processAndSpeakSpoken(Begin(f), i))
            IN  ~s.isProcessing /\ s.currentAction = "none"

(* C4: isProcessing implies that currentAction is not null.                 *)
C4_ProcessingHasAction ==
    isProcessing => currentAction # "none"

\* what a stop leaves behind: the flags, and the collaborator calls made
StopOutcome(s) ==
    <<s.isProcessing, s.currentAction, s.isLive, s.showRememberModal,
      s.isCancelledRef, s.recStopping, s.session, s.timers,
      {s.fx[i] : i \in 1..Len(s.fx)}>>

(* C5: the intent of the action that is active has the outcome of the       *)
(* global stop, for describe, person, ask and live (for live, once the     *)
(* awaited teardown has completed).                                        *)
C5_ToggleIsStop ==
    \A f \in Frames :
        LET r == Begin(f)
            stop == StopOutcome(After(handleStop(r, r)))
        IN  /\ currentAction = "describe" =>
                StopOutcome(After(handleDescribe(r))) = stop
            /\ currentAction = "person" =>
                StopOutcome(After(handlePerson(r))) = stop
            /\ currentAction = "ask" =>
                StopOutcome(After(handleAsk(r))) = stop
            /\ (currentAction = "live" /\ isLive) =>
                LET s == handleLive(r)
                IN  StopOutcome(After(handleLiveStopped(s, Len(s.liveOps)))) = stop

\* the handler result s spoke nothing, issued no remote call and left the
\* processing state of the current render alone
NothingStarted(s) ==
    /\ Made(s, "speak") = {}
    /\ Made(s, "describeScene") = {} /\ Made(s, "describePerson") = {}
    /\ s.calls = calls
    /\ s.isProcessing = isProcessing
    /\ s.currentAction = currentAction

GotNoFrame(s) == \E i \in 1..Len(s.fx) : s.fx[i] = <<"captureFrame", NoFrame>>

(* C6: a describe or person intent whose captureFrame returns no frame      *)
(* issues no remote call, speaks no status cue and leaves isProcessing and *)
(* currentAction unchanged.                                                *)
C6_NoFrameNoCall ==
    \A f \in Frames :
        /\ GotNoFrame(handleDescribe(Begin(f))) =>
              NothingStarted(After(handleDescribe(Begin(f))))
        /\ GotNoFrame(handlePerson(Begin(f))) =>
              NothingStarted(After(handlePerson(Begin(f))))

\* a reachable case of C6: live mode is on, nothing is processing, and the
\* describe intent gets no frame from the webcam
C6_Witness ==
    /\ isLive /\ ~isProcessing /\ calls # <<>>
    /\ GotNoFrame(handleDescribe(Begin(NoFrame)))
    /\ GotNoFrame(handlePerson(Begin(NoFrame)))

\* an action of the given kinds becomes the active one in this step
Begins(kinds) ==
    /\ currentAction' \in kinds
    /\ currentAction' # currentAction \/ Len(calls') > Len(calls)

(* C7 as stated: whenever describe, person, ask or live becomes the active  *)
(* action, the cancellation flag is false.                                 *)
C7_FlagClearAtStart ==
    [][Begins(ActionTypes \cup {"live"}) => ~isCancelledRef']_vars

(* C7 amended: whenever describe, person or ask becomes the active action,  *)
(* the cancellation flag is false.                                         *)
C7_FlagClearAtSingleShotStart ==
    [][Begins(ActionTypes) => ~isCancelledRef']_vars

\* a reachable case of C7: a single-shot action is active and was started
\* inside the guard window of a stop, whose timer is still pending
C7_Witness ==
    /\ currentAction \in ActionTypes /\ isProcessing
    /\ timers > 0 /\ ~isCancelledRef
    /\ \E i \in 1..Len(calls) : ~calls[i].stopped

(* C8: once the teardown of the live session has begun (liveService.stop    *)
(* was called), the frame feed makes no captureFrame or sendVideoFrame     *)
(* call: its interval is no longer installed.                              *)
C8_FeedStopsAtTeardown ==
    StopPending =>
        /\ ~interval
        /\ \A f \in Frames : feedTick(Begin(f)).fx = <<>>

(* C9: a live session started at 0ms and ended by the live intent at 1700ms *)
(* pushes exactly 3 frames (at 500, 1000 and 1500ms): never more, and 3    *)
(* once the session is over, however long the teardown takes.              *)
C9_ThreePushes ==
    /\ pushes <= 3
    /\ (~isLive /\ clock >= LiveEndAt) => pushes = 3

(* C10: one askWithContext call at most is issued for the transcript of a   *)
(* recognition session.                                                    *)
C10_OneAskPerTranscript ==
    askCount <= 1

\* the render that the committed state s becomes for the next step, with the
\* webcam able to deliver frame f during that step
Then(s, f) == [s EXCEPT !.video = f, !.fx = <<>>]

(* C11: an ask intent handled while recognition is listening produces no    *)
(* request: when the recognition it stopped ends, whatever final transcript *)
(* it delivers, no askWithContext call is issued.                          *)
C11_AskStopNoRequest ==
    (isListening /\ currentAction # "ask") =>
        \A f \in Frames, t \in Transcripts \cup {""} :
            LET s1 == After(handleAsk(Begin(f)))
                r2 == Then(s1, f)
                s2 == Render(r2, recognitionEnded(r2, t))
            IN  /\ Made(s1, "stopListening") # {}
                /\ Made(s1, "askWithContext") = {}
                /\ Made(s2, "askWithContext") = {}

\* the orchestrator is Idle in s; recognition counts as not listening once
\* it was asked to stop
IdleIn(s) ==
    /\ ~s.isProcessing /\ s.currentAction = "none" /\ ~s.isLive
    /\ ~s.isListening \/ s.recStopping
    /\ ~s.showRememberModal

RemoteCalls == {"describeScene", "describePerson", "askWithContext"}

NoRemoteCall(s) == \A k \in RemoteCalls : Made(s, k) = {}

(* C12: right after a global stop (reached through the intent of the active *)
(* single-shot action) the orchestrator is Idle and the stop issued no     *)
(* remote call; the recognition ending afterwards leaves it Idle and       *)
(* issues no remote call either.                                           *)
C12_StopLeavesIdle ==
    currentAction \in ActionTypes =>
        \A f \in Frames, t \in Transcripts \cup {""} :
            LET r == Begin(f)
                s1 == After(handleStop(r, r))
                r2 == Then(s1, f)
                s2 == Render(r2, recognitionEnded(r2, t))
            IN  /\ IdleIn(s1) /\ NoRemoteCall(s1)
                /\ s1.isListening => (IdleIn(s2) /\ NoRemoteCall(s2))

(* C13: when liveService.start rejects, "Could not start live mode." is     *)
(* spoken and the orchestrator is Idle: isLive false, currentAction null   *)
(* and isProcessing false, whatever was handled while the start was        *)
(* pending.                                                                *)
C13_StartFailureIdle ==
    \A i \in 1..Len(liveOps), f \in Frames :
        liveOps[i].kind = "start" =>
            LET s == After(handleLiveFailed(Begin(f), i))
            IN  /\ \E j \in Made(s, "speak") :
                       s.fx[j][2] = "Could not start live mode."
                /\ ~s.isLive /\ s.currentAction = "none" /\ ~s.isProcessing

\* the names the property of the remember dialog is evaluated for: those the
\* Save action types, and more with inner blanks and a second person
TypedNames ==
    Names \cup { <<"B">>, <<" ", " ">>, <<"A", " ", "B", " ">>, <<" ", "B">> }

\* a sequence of characters is blank: empty or spaces only
RECURSIVE IsBlank(_)
IsBlank(n) == n = <<>> \/ (Head(n) = " " /\ IsBlank(Tail(n)))

\* n without its leading and trailing spaces, for a name that is not blank
Stripped(n) ==
    LET first == CHOOSE i \in 1..Len(n) :
                     n[i] # " " /\ \A j \in 1..(i - 1) : n[j] = " "
        last == CHOOSE i \in 1..Len(n) :
                    n[i] # " " /\ \A j \in (i + 1)..Len(n) : n[j] = " "
    IN  SubSeq(n, first, last)

(* C14: with the remember dialog open, Save appends exactly the record      *)
(* {name without surrounding whitespace, pending frame} at the end of      *)
(* rememberedPeople when the name is not blank and leaves rememberedPeople *)
(* as it is when the name is blank; Cancel leaves it as it is; after Save  *)
(* and after Cancel the dialog is closed.                                  *)
C14_SaveAppendsTrimmed ==
    showRememberModal =>
        /\ \A name \in TypedNames :
               LET s == After(handleSavePerson(Begin(NoFrame), name))
               IN  /\ ~s.showRememberModal
                   /\ s.rememberedPeople =
                          IF IsBlank(name) THEN rememberedPeople
                          ELSE Append(rememberedPeople,
                                      [name |-> Stripped(name),
                                       imageBase64 |-> frameToRemember])
                   /\ ~IsBlank(name) => frameToRemember # NoFrame
        /\ LET s == After(modalOnClose(Begin(NoFrame)))
           IN  ~s.showRememberModal /\ s.rememberedPeople = rememberedPeople

\* a reachable case of C14: the dialog is open for a second person while a
\* first record is stored
C14_Witness ==
    /\ showRememberModal /\ frameToRemember # NoFrame
    /\ rememberedPeople # <<>>
    /\ rememberedPeople[1].name = <<"A">>

(* C15: while isProcessing is true the remember intent captures no frame    *)
(* and leaves showRememberModal and frameToRemember as they are; when it   *)
(* is accepted and captureFrame returns no frame, it shows no dialog:      *)
(* showRememberModal and frameToRemember are as before.                    *)
C15_RememberGuarded ==
    \A f \in Frames :
        LET h == handleRemember(Begin(f))
            s == After(h)
        IN  /\ isProcessing =>
                /\ Made(h, "captureFrame") = {}
                /\ s.showRememberModal = showRememberModal
                /\ s.frameToRemember = frameToRemember
            /\ GotNoFrame(h) =>
                /\ s.showRememberModal = showRememberModal
                /\ s.frameToRemember = frameToRemember

\* a reachable case of C15: a describe call is pending, the webcam has a
\* frame, the dialog is closed, and the remember intent arrives
C15_Witness ==
    /\ isProcessing /\ ~showRememberModal /\ calls # <<>>
    /\ handleRemember(Begin(MaxFrame)) = Begin(MaxFrame)

\* the invocation i of processAndSpeak runs on to its finally block, with
\* the webcam at frame f: after its utterance, or right after the remote
\* call settled (ok: resolved) when the cancellation flag is set
Completion(i, ok, f) ==
    IF calls[i].phase = "speaking"
    THEN processAndSpeakSpoken(Begin(f), i)
    ELSE processAndSpeakSettled(Begin(f), i, ok)

ReachesFinally(i) == calls[i].phase = "speaking" \/ isCancelledRef

(* C16: a completion that changes isProcessing or currentAction belongs to  *)
(* the active action: currentAction at completion time is the action type  *)
(* the call was dispatched for.                                            *)
C16_OnlyMatchingClears ==
    \A i \in 1..Len(calls), ok \in BOOLEAN, f \in Frames :
        ReachesFinally(i) =>
            LET s == Completion(i, ok, f)
            IN  (s.isProcessing # isProcessing \/ s.currentAction # currentAction)
                    => currentAction = calls[i].type

\* a reachable case of C16: the utterance of a stale call ends while a
\* different action is the active one
C16_Witness ==
    \E i \in 1..Len(calls) :
        /\ calls[i].phase = "speaking"
        /\ currentAction \notin {"none", calls[i].type}

(* C17: a single-shot remote call is dispatched only when nothing is        *)
(* processing and live mode is off, and at most one pending remote call    *)
(* can still have its result spoken.                                       *)
C17_OneSingleShot ==
    [][/\ Len(calls') > Len(calls) => (~isProcessing /\ ~isLive)
       /\ ~isCancelledRef' =>
              Cardinality({i \in 1..Len(calls') : calls'[i].phase = "pending"}) <= 1
      ]_vars

\* the utterances that carry the result or the apology of a remote call
ResultTexts ==
    {"responseText", "Sorry, I encountered an error. Please try again."}

ResultSpeaks(s) == {j \in Made(s, "speak") : s.fx[j][2] \in ResultTexts}

(* C18 as stated: the result or apology of a call is spoken with the voice  *)
(* and the rate that are selected when the call settles.                   *)
C18_SpokenWithCurrentSettings ==
    \A i \in 1..Len(calls), ok \in BOOLEAN, f \in Frames :
        (calls[i].phase = "pending" /\ ~isCancelledRef) =>
            LET s == After(processAndSpeakSettled(Begin(f), i, ok))
            IN  /\ ResultSpeaks(s) # {}
                /\ \A j \in ResultSpeaks(s) :
                       /\ s.fx[j][3] = LANGUAGES[language].voice
                       /\ s.fx[j][4] = speechSpeed

(* C18 amended: every call is dispatched with the language and the speed    *)
(* selected at that moment, and its result or apology is spoken with that  *)
(* voice and rate, whatever is selected when the call settles.             *)
C18_SpokenWithDispatchSettings ==
    [][/\ Len(calls') > Len(calls) =>
              /\ calls'[Len(calls')].language = language'
              /\ calls'[Len(calls')].speechSpeed = speechSpeed'
       /\ \A i \in 1..Len(calls), ok \in BOOLEAN, f \in Frames :
              (calls[i].phase = "pending" /\ ~isCancelledRef) =>
                  LET s == After(processAndSpeakSettled(Begin(f), i, ok))
                  IN  /\ ResultSpeaks(s) # {}
                      /\ \A j \in ResultSpeaks(s) :
                             /\ s.fx[j][3] = LANGUAGES[calls[i].language].voice
                             /\ s.fx[j][4] = calls[i].speechSpeed
      ]_vars

\* a reachable case of C18: a remote call is about to settle, unstopped and
\* with the flag clear, after the language or the speed was changed
C18_Witness ==
    \E i \in 1..Len(calls) :
        /\ calls[i].phase = "pending" /\ ~calls[i].stopped /\ ~isCancelledRef
        /\ calls[i].language # language \/ calls[i].speechSpeed # speechSpeed

(* C19: from a global stop until the timer it scheduled fires, the          *)
(* cancellation flag is set.                                               *)
C19_FlagHeldForWindow ==
    timers > 0 => isCancelledRef

StartPending == \E i \in 1..Len(liveOps) : liveOps[i].kind = "start"

(* C20: the frame feed calls liveService.sendVideoFrame only when the       *)
(* liveService.start call of the live activation has resolved and the      *)
(* session is open.                                                        *)
C20_PushOnlyWhenOpen ==
    interval =>
        \A f \in Frames :
            Made(feedTick(Begin(f)), "sendVideoFrame") # {} =>
                (~StartPending /\ session = "open")

====
